---------------------------- MODULE Spec2Model ----------------------------
(***************************************************************************)
(* A state-machine model of the CHIP-8 execution engine of rust-chip-8:    *)
(* Cpu (src/src/cpu.rs), Display (src/src/display.rs) and Keyboard         *)
(* (src/src/keyboard.rs).                                                  *)
(*                                                                         *)
(* Representation.  memory : [u8; 4096] is zero-initialised; the variable  *)
(* memory holds the array restricted to its non-zero cells and MemRead     *)
(* gives 0 elsewhere.  block_arr : [u8; 2048] only ever holds 0 or 1; the  *)
(* variable block_arr is the set of indices holding 1.  An Instant is a    *)
(* natural number read from the clock now.  A panic stops the engine       *)
(* thread: phase becomes "panicked" and fatal names the panic.             *)
(***************************************************************************)
EXTENDS Integers, Sequences, FiniteSets, TLC

(***************************************************************************)
(* Program constants                                                       *)
(***************************************************************************)
MEMORY_SIZE == 4096
COLS == 64
ROWS == 32
NUM_OF_BLOCKS == COLS * ROWS
KEY_PRESS_TTL == 100
START_ADDR == 512
\* speed = (700.0 * FPS_INTERVAL.as_secs_f32()) as u16, FPS_INTERVAL = 16 ms
speed == 11

SPRITE_BYTES ==
  << 240, 144, 144, 144, 240,    32,  96,  32,  32, 112,
     240,  16, 240, 128, 240,   240,  16, 240,  16, 240,
     144, 144, 240,  16,  16,   240, 128, 240,  16, 240,
     240, 128, 240, 144, 240,   240,  16,  32,  64,  64,
     240, 144, 240, 144, 240,   240, 144, 240,  16, 240,
     240, 144, 240, 144, 144,   224, 144, 224, 144, 224,
     240, 128, 128, 128, 240,   224, 144, 144, 144, 224,
     240, 128, 240, 128, 240,   240, 128, 240, 128, 128 >>

\* Keyboard::new: the fixed table from physical character to logical key
key_map ==
  [ c \in {"1","2","3","4","q","w","e","r","a","s","d","f","z","x","c","v"} |->
      CASE c = "1" -> 1  [] c = "2" -> 2  [] c = "3" -> 3  [] c = "4" -> 12
        [] c = "q" -> 4  [] c = "w" -> 5  [] c = "e" -> 6  [] c = "r" -> 13
        [] c = "a" -> 7  [] c = "s" -> 8  [] c = "d" -> 9  [] c = "f" -> 14
        [] c = "z" -> 10 [] c = "x" -> 0  [] c = "c" -> 11 [] c = "v" -> 15 ]

(***************************************************************************)
(* Bounds of the model                                                     *)
(***************************************************************************)
\* key events the capture thread reads in one run
MaxEvents == 2
\* advances of the clock in one run
MaxTicks == 1
\* CALL/RET instructions applied in one run of SpecFlow
MaxFlow == 4
\* Dxyn instructions applied in one run of SpecDraw
MaxDraws == 2

(***************************************************************************)
(* Fixed-width arithmetic                                                  *)
(***************************************************************************)
Byte == 0..255
Reg == 0..15
VF == 15

Pow2(k) == 2 ^ k
BitAt(n, k) == (n \div Pow2(k)) % 2

\* bitwise operators of width w
BitAnd(a, b, w) ==
  LET f[k \in 0..w] ==
        IF k = w THEN 0
        ELSE (IF BitAt(a, k) = 1 /\ BitAt(b, k) = 1 THEN Pow2(k) ELSE 0) + f[k + 1]
  IN f[0]
BitOr(a, b, w) ==
  LET f[k \in 0..w] ==
        IF k = w THEN 0
        ELSE (IF BitAt(a, k) = 1 \/ BitAt(b, k) = 1 THEN Pow2(k) ELSE 0) + f[k + 1]
  IN f[0]
BitXor(a, b, w) ==
  LET f[k \in 0..w] ==
        IF k = w THEN 0
        ELSE (IF BitAt(a, k) # BitAt(b, k) THEN Pow2(k) ELSE 0) + f[k + 1]
  IN f[0]

\* `as u8`
AsU8(n) == n % 256

(***************************************************************************)
(* State                                                                   *)
(***************************************************************************)
VARIABLES
  \* Cpu
  memory, v, i, delay_timer, sound_timer, pc, stack, paused, should_quit,
  next_key_params,
  \* Display
  block_arr, raw_mode, rendered,
  \* Keyboard
  key_press_rx, pressed_keys, esc_pressed, pause_toggle_on,
  \* the capture thread spawned by Keyboard::listen
  listening, captured,
  \* the clock behind Instant::now(), and how often it has advanced
  now, ticks,
  \* position of the engine thread: phase, and the index of the for loop
  phase, step, fatal,
  \* history: the last two instructions executed (opcode and the state
  \* before it), the input phase or end of frame the loop has just done, the
  \* last load, and the addresses of the CALLs not yet returned from
  last, last2, last_input, last_frame, last_load, call_sites,
  \* instructions applied so far by the instruction-level specifications
  nexec

cpuVars == <<memory, v, i, delay_timer, sound_timer, pc, stack, paused,
             should_quit, next_key_params>>
displayVars == <<block_arr, raw_mode, rendered>>
keyboardVars == <<key_press_rx, pressed_keys, esc_pressed, pause_toggle_on>>
captureVars == <<listening, captured>>
ctlVars == <<phase, step, fatal>>
histVars == <<last, last2, last_input, last_frame, last_load, call_sites,
             nexec>>
clockVars == <<now, ticks>>
vars == <<cpuVars, displayVars, keyboardVars, captureVars, clockVars, ctlVars,
          histVars>>

\* Option<T>: <<>> is None, <<x>> is Some(x)
Some(x) == <<x>>

MemRead(mem, a) == IF a \in DOMAIN mem THEN mem[a] ELSE 0
MemWrite(mem, a, val) ==
  [b \in (IF val = 0 THEN DOMAIN mem \ {a} ELSE DOMAIN mem \cup {a}) |->
     IF b = a THEN val ELSE mem[b]]


(***************************************************************************)
(* Display                                                                 *)
(***************************************************************************)
\* mutant: the block is set, not toggled
set_block_or(blocks, x, y) ==
  LET block_idx == x + (y * COLS)
  IN [block_arr |-> blocks \cup {block_idx}, erased |-> block_idx \in blocks]

\* Display::set_block: toggle block (x, y); erased is the value returned
set_block(blocks, x, y) ==
  LET block_idx == x + (y * COLS)
      toggled == IF block_idx \in blocks THEN blocks \ {block_idx}
                                         ELSE blocks \cup {block_idx}
  IN [block_arr |-> toggled, erased |-> block_idx \notin toggled]

\* Display::clear
clear(blocks) == {}

(***************************************************************************)
(* Keyboard::is_key_pressed                                                *)
(***************************************************************************)
is_key_pressed(keys, t, key_val) ==
  IF key_val \in DOMAIN keys THEN t - keys[key_val] < KEY_PRESS_TTL ELSE FALSE

(***************************************************************************)
(* Cpu::exec_instruction.  The operators below act on a record s of the    *)
(* Cpu fields the instruction can change (and block_arr of its Display);   *)
(* s.pc has already been advanced by 2.                                    *)
(***************************************************************************)
CpuState ==
  [memory |-> memory, v |-> v, i |-> i, delay_timer |-> delay_timer,
   sound_timer |-> sound_timer, pc |-> pc, stack |-> stack, paused |-> paused,
   next_key_params |-> next_key_params, block_arr |-> block_arr,
   fatal |-> fatal]

Panic(s, what) == [s EXCEPT !.fatal = what]

\* mutant: the oldest return address is taken
RET_fifo(s) ==
  IF s.stack = <<>> THEN Panic(s, "Attempt to pop from empty stack")
  ELSE [s EXCEPT !.pc = s.stack[1], !.stack = Tail(s.stack)]

\* 00EE
RET(s) ==
  IF s.stack = <<>> THEN Panic(s, "Attempt to pop from empty stack")
  ELSE [s EXCEPT !.pc = s.stack[Len(s.stack)],
                 !.stack = SubSeq(s.stack, 1, Len(s.stack) - 1)]

\* 2nnn
CALL(s, nnn) == [s EXCEPT !.stack = Append(s.stack, s.pc), !.pc = nnn]

\* 3xkk, 4xkk, 5xy0, 9xy0, Ex9E, ExA1: pc += 2 when the condition holds
Skip(s, cond) == IF cond THEN [s EXCEPT !.pc = s.pc + 2] ELSE s

\* mutant: the carry is stored before the operands are read
ADD_Vx_Vy_flag_first(vv, x, y) ==
  LET v1 == [vv EXCEPT ![VF] = IF vv[x] + vv[y] > 255 THEN 1 ELSE 0]
  IN [v1 EXCEPT ![x] = AsU8(v1[x] + v1[y])]

\* 8xy4
ADD_Vx_Vy(vv, x, y) ==
  LET sum == vv[x] + vv[y]
      v1 == [vv EXCEPT ![x] = AsU8(sum)]
  IN [v1 EXCEPT ![VF] = IF sum > 255 THEN 1 ELSE 0]

\* 8xy5
SUB_Vx_Vy(vv, x, y) ==
  LET v1 == [vv EXCEPT ![VF] = IF vv[x] > vv[y] THEN 1 ELSE 0]
  IN [v1 EXCEPT ![x] = (v1[x] - v1[y]) % 256]

\* 8xy6
SHR_Vx(vv, x, y) ==
  LET v1 == [vv EXCEPT ![VF] = BitAnd(vv[x], 1, 8)]
  IN [v1 EXCEPT ![x] = v1[x] \div 2]

\* 8xy7
SUBN_Vx_Vy(vv, x, y) ==
  LET v1 == [vv EXCEPT ![VF] = IF vv[y] > vv[x] THEN 1 ELSE 0]
  IN [v1 EXCEPT ![x] = (v1[y] - v1[x]) % 256]

\* mutant: the flag is normalised to 0 or 1
SHL_Vx_flag_bit(vv, x, y) ==
  LET v1 == [vv EXCEPT ![VF] = vv[x] \div 128]
  IN [v1 EXCEPT ![x] = AsU8(v1[x] * 2)]

\* 8xyE
SHL_Vx(vv, x, y) ==
  LET v1 == [vv EXCEPT ![VF] = BitAnd(vv[x], 128, 8)]
  IN [v1 EXCEPT ![x] = AsU8(v1[x] * 2)]

\* 8xyN
Alu(s, x, y, n) ==
  CASE n = 0 -> [s EXCEPT !.v[x] = s.v[y]]
    [] n = 1 -> [s EXCEPT !.v[x] = BitOr(s.v[x], s.v[y], 8)]
    [] n = 2 -> [s EXCEPT !.v[x] = BitAnd(s.v[x], s.v[y], 8)]
    [] n = 3 -> [s EXCEPT !.v[x] = BitXor(s.v[x], s.v[y], 8)]
    [] n = 4 -> [s EXCEPT !.v = ADD_Vx_Vy(s.v, x, y)]
    [] n = 5 -> [s EXCEPT !.v = SUB_Vx_Vy(s.v, x, y)]
    [] n = 6 -> [s EXCEPT !.v = SHR_Vx(s.v, x, y)]
    [] n = 7 -> [s EXCEPT !.v = SUBN_Vx_Vy(s.v, x, y)]
    [] n = 14 -> [s EXCEPT !.v = SHL_Vx(s.v, x, y)]
    [] OTHER -> s

\* Dxyn, the loop over col for one sprite row drawn on display row yy
DrawRow(s, sprite_row, x_start, yy, width) ==
  LET g[c \in 0..width] ==
        IF c = 0 THEN s
        ELSE LET t == g[c - 1]
             IN IF BitAt(sprite_row, 7 - (c - 1)) = 1
                  THEN LET b == set_block(t.block_arr, x_start + (c - 1), yy)
                       IN [t EXCEPT !.block_arr = b.block_arr,
                                    !.v[VF] = IF b.erased THEN 1 ELSE @]
                  ELSE t
  IN g[width]

\* Dxyn, the loop over row; a read of memory past its end panics with the
\* rows drawn so far
DrawLoop(s, x_start, y_start, height, width) ==
  LET f[r \in 0..height] ==
        IF r = 0 THEN s
        ELSE LET t == f[r - 1]
                 addr == t.i + (r - 1)
             IN IF t.fatal # "none" THEN t
                ELSE IF addr >= MEMORY_SIZE THEN Panic(t, "index out of bounds")
                ELSE DrawRow(t, MemRead(t.memory, addr), x_start,
                             y_start + (r - 1), width)
  IN f[height]

\* mutant: the sprite is not cut off at the edges
Min_uncut(a, b) == a

Min(a, b) == IF a < b THEN a ELSE b

\* mutant: VF is not reset before the blit
DRW_keep_flag(s, x, y, n) ==
  DrawLoop(s, s.v[x] % COLS, s.v[y] % ROWS, Min(n, ROWS - (s.v[y] % ROWS)),
           Min(8, COLS - (s.v[x] % COLS)))

DRW(s, x, y, n) ==
  LET x_start == s.v[x] % COLS
      y_start == s.v[y] % ROWS
      max_width == COLS - x_start
      max_height == ROWS - y_start
      height == Min(n, max_height)
      width == Min(8, max_width)
      s0 == [s EXCEPT !.v[VF] = 0]
  IN DrawLoop(s0, x_start, y_start, height, width)

\* Fx33
LD_B_Vx(s, x) ==
  LET idx == s.i
      m1 == MemWrite(s.memory, idx, s.v[x] \div 100)
      m2 == MemWrite(m1, idx + 1, (s.v[x] % 100) \div 10)
      m3 == MemWrite(m2, idx + 2, s.v[x] % 10)
  IN IF idx >= MEMORY_SIZE THEN Panic(s, "index out of bounds")
     ELSE IF idx + 1 >= MEMORY_SIZE
       THEN Panic([s EXCEPT !.memory = m1], "index out of bounds")
     ELSE IF idx + 2 >= MEMORY_SIZE
       THEN Panic([s EXCEPT !.memory = m2], "index out of bounds")
     ELSE [s EXCEPT !.memory = m3]

\* mutant: I is left behind the last byte written
LD_I_Vx_advance(s, x) ==
  IF s.i + x >= MEMORY_SIZE THEN Panic(s, "range end index out of range")
  ELSE LET copy[k \in 0..(x + 1)] ==
             IF k = 0 THEN s.memory
             ELSE MemWrite(copy[k - 1], s.i + (k - 1), s.v[k - 1])
       IN [s EXCEPT !.memory = copy[x + 1], !.i = s.i + x + 1]

\* Fx55
LD_I_Vx(s, x) ==
  LET start_addr == s.i
      copy[k \in 0..(x + 1)] ==
        IF k = 0 THEN s.memory
        ELSE MemWrite(copy[k - 1], start_addr + (k - 1), s.v[k - 1])
  IN IF start_addr + x >= MEMORY_SIZE THEN Panic(s, "range end index out of range")
     ELSE [s EXCEPT !.memory = copy[x + 1]]

\* Fx65
LD_Vx_I(s, x) ==
  LET start_addr == s.i
  IN IF start_addr + x >= MEMORY_SIZE THEN Panic(s, "range end index out of range")
     ELSE [s EXCEPT !.v = [r \in Reg |->
                             IF r <= x THEN MemRead(s.memory, start_addr + r)
                             ELSE s.v[r]]]

\* mutant: the request is stored without pausing
LD_Vx_K_not_paused(s, x) ==
  [s EXCEPT !.next_key_params =
              Some([destination_idx |-> x, valid_after |-> now])]

\* Fx0A
LD_Vx_K(s, x) ==
  [s EXCEPT !.next_key_params =
              Some([destination_idx |-> x, valid_after |-> now]),
            !.paused = TRUE]

\* Fx1E: self.i += Vx on a u16; past 0xFFFF the addition panics in a build
\* with overflow checks and wraps in a build without them
ADD_I_Vx(s, x) ==
  IF s.i + s.v[x] > 65535
    THEN {Panic(s, "attempt to add with overflow"),
          [s EXCEPT !.i = (s.i + s.v[x]) % 65536]}
    ELSE {[s EXCEPT !.i = s.i + s.v[x]]}

\* the 0xF000 family
FamilyF(s, x, kk) ==
  CASE kk = 7   -> {[s EXCEPT !.v[x] = s.delay_timer]}
    [] kk = 10  -> {LD_Vx_K(s, x)}
    [] kk = 21  -> {[s EXCEPT !.delay_timer = s.v[x]]}
    [] kk = 24  -> {[s EXCEPT !.sound_timer = s.v[x]]}
    [] kk = 30  -> ADD_I_Vx(s, x)
    [] kk = 41  -> {[s EXCEPT !.i = s.v[x] * 5]}
    [] kk = 51  -> {LD_B_Vx(s, x)}
    [] kk = 85  -> {LD_I_Vx(s, x)}
    [] kk = 101 -> {LD_Vx_I(s, x)}
    [] OTHER    -> {s}

\* the 0xE000 family
FamilyE(s, x, kk) ==
  CASE kk = 158 -> Skip(s, is_key_pressed(pressed_keys, now, s.v[x]))
    [] kk = 161 -> Skip(s, ~is_key_pressed(pressed_keys, now, s.v[x]))
    [] OTHER    -> s

\* the 0x0000 family
Family0(s, opcode) ==
  CASE opcode = 224 -> [s EXCEPT !.block_arr = clear(s.block_arr)]
    [] opcode = 238 -> RET(s)
    [] OTHER        -> s

\* The set of states exec_instruction can leave, from the fields in s0
exec_instruction(s0, opcode) ==
  LET s == [s0 EXCEPT !.pc = s0.pc + 2]
      x == (opcode \div 256) % 16
      y == (opcode \div 16) % 16
      n == opcode % 16
      kk == opcode % 256
      nnn == opcode % 4096
      family == opcode \div 4096
  IN CASE family = 0  -> {Family0(s, opcode)}
       [] family = 1  -> {[s EXCEPT !.pc = nnn]}
       [] family = 2  -> {CALL(s, nnn)}
       [] family = 3  -> {Skip(s, s.v[x] = kk)}
       [] family = 4  -> {Skip(s, s.v[x] # kk)}
       [] family = 5  -> {Skip(s, s.v[x] = s.v[y])}
       [] family = 6  -> {[s EXCEPT !.v[x] = kk]}
       [] family = 7  -> {[s EXCEPT !.v[x] = AsU8(s.v[x] + opcode)]}
       [] family = 8  -> {Alu(s, x, y, n)}
       [] family = 9  -> {Skip(s, s.v[x] # s.v[y])}
       [] family = 10 -> {[s EXCEPT !.i = nnn]}
       [] family = 11 -> {[s EXCEPT !.pc = nnn + s.v[0]]}
       [] family = 12 -> {[s EXCEPT !.v[x] = BitAnd(r, kk, 8)] : r \in Byte}
       [] family = 13 -> {DRW(s, x, y, n)}
       [] family = 14 -> {FamilyE(s, x, kk)}
       [] family = 15 -> FamilyF(s, x, kk)
       [] OTHER       -> {Panic(s, "Unknown opcode")}

(***************************************************************************)
(* Keyboard.  A key event is [key, timestamp]; key is "Esc" or a           *)
(* character.  k is the record of the Keyboard fields.                     *)
(***************************************************************************)
Keyboard ==
  [key_press_rx |-> key_press_rx, pressed_keys |-> pressed_keys,
   esc_pressed |-> esc_pressed, pause_toggle_on |-> pause_toggle_on,
   consumed |-> <<>>]

IsChar(key) == key # "Esc"

\* mutant: the head is delivered but the newest event leaves the channel
Recv_drop_newest(k) ==
  [k EXCEPT !.key_press_rx = SubSeq(@, 1, Len(@) - 1),
            !.consumed = Append(@, Head(k.key_press_rx))]

\* try_recv() returned Ok(ev): ev leaves the channel
Recv(k) == [k EXCEPT !.key_press_rx = Tail(@),
                     !.consumed = Append(@, Head(k.key_press_rx))]

\* Keyboard::process_pressed_keys
RECURSIVE process_pressed_keys(_)
process_pressed_keys(k) ==
  IF k.key_press_rx = <<>> THEN k
  ELSE LET ev == Head(k.key_press_rx)
           k1 == Recv(k)
       IN IF IsChar(ev.key)
            THEN IF ev.key = " "
                   THEN [k1 EXCEPT !.pause_toggle_on = ~@]
                 ELSE IF ev.key \in DOMAIN key_map
                   THEN process_pressed_keys(
                          [k1 EXCEPT !.pressed_keys =
                             (key_map[ev.key] :> ev.timestamp) @@ @])
                 ELSE process_pressed_keys(k1)
            ELSE [k1 EXCEPT !.esc_pressed = TRUE]

\* mutant: the quit key is skipped like an unmapped character
RECURSIVE get_next_key_skip_esc(_, _)
get_next_key_skip_esc(k, valid_after) ==
  IF k.key_press_rx = <<>> THEN [k |-> k, val |-> <<>>]
  ELSE LET ev == Head(k.key_press_rx)
           k1 == Recv(k)
       IN IF IsChar(ev.key)
            THEN IF ev.timestamp < valid_after
                   THEN get_next_key_skip_esc(k1, valid_after)
                 ELSE IF ev.key \in DOMAIN key_map
                   THEN [k |-> k1, val |-> Some(key_map[ev.key])]
                 ELSE IF ev.key = " "
                   THEN [k |-> [k1 EXCEPT !.pause_toggle_on = ~@], val |-> <<>>]
                 ELSE get_next_key_skip_esc(k1, valid_after)
            ELSE get_next_key_skip_esc(k1, valid_after)

\* mutant: the timestamp of a character event is not compared
RECURSIVE get_next_key_stale(_, _)
get_next_key_stale(k, valid_after) ==
  IF k.key_press_rx = <<>> THEN [k |-> k, val |-> <<>>]
  ELSE LET ev == Head(k.key_press_rx)
           k1 == Recv(k)
       IN IF IsChar(ev.key)
            THEN IF ev.key \in DOMAIN key_map
                   THEN [k |-> k1, val |-> Some(key_map[ev.key])]
                 ELSE IF ev.key = " "
                   THEN [k |-> [k1 EXCEPT !.pause_toggle_on = ~@], val |-> <<>>]
                 ELSE get_next_key_stale(k1, valid_after)
            ELSE [k |-> [k1 EXCEPT !.esc_pressed = TRUE], val |-> <<>>]

\* Keyboard::get_next_key: [k |-> the keyboard after, val |-> Option<u8>]
RECURSIVE get_next_key(_, _)
get_next_key(k, valid_after) ==
  IF k.key_press_rx = <<>> THEN [k |-> k, val |-> <<>>]
  ELSE LET ev == Head(k.key_press_rx)
           k1 == Recv(k)
       IN IF IsChar(ev.key)
            THEN IF ev.timestamp < valid_after THEN get_next_key(k1, valid_after)
                 ELSE IF ev.key \in DOMAIN key_map
                   THEN [k |-> k1, val |-> Some(key_map[ev.key])]
                 ELSE IF ev.key = " "
                   THEN [k |-> [k1 EXCEPT !.pause_toggle_on = ~@], val |-> <<>>]
                 ELSE get_next_key(k1, valid_after)
            ELSE [k |-> [k1 EXCEPT !.esc_pressed = TRUE], val |-> <<>>]

\* mutant: the key goes to V0, whatever the destination
process_next_key_v0(s, k) ==
  LET params == s.next_key_params[1]
      got == get_next_key(k, params.valid_after)
  IN IF got.val # <<>>
       THEN IF got.k.esc_pressed \/ got.k.pause_toggle_on
              THEN [s |-> s, k |-> got.k, resolved |-> FALSE,
                    val |-> got.val]
              ELSE [s |-> [s EXCEPT !.v[0] = got.val[1],
                                    !.paused = FALSE,
                                    !.next_key_params = <<>>],
                    k |-> got.k, resolved |-> TRUE, val |-> got.val]
       ELSE [s |-> s, k |-> got.k, resolved |-> FALSE,
                    val |-> got.val]

\* Cpu::process_next_key, on the Cpu fields s and the keyboard k
process_next_key(s, k) ==
  LET params == s.next_key_params[1]
      got == get_next_key(k, params.valid_after)
  IN IF got.val # <<>>
       THEN IF got.k.esc_pressed \/ got.k.pause_toggle_on
              THEN [s |-> s, k |-> got.k, resolved |-> FALSE,
                    val |-> got.val]
              ELSE [s |-> [s EXCEPT !.v[params.destination_idx] = got.val[1],
                                    !.paused = FALSE,
                                    !.next_key_params = <<>>],
                    k |-> got.k, resolved |-> TRUE, val |-> got.val]
       ELSE [s |-> s, k |-> got.k, resolved |-> FALSE,
                    val |-> got.val]

\* mutant: the timers are decremented without the test for 0
update_timers_wrap(s) ==
  [s EXCEPT !.delay_timer = AsU8(@ - 1), !.sound_timer = AsU8(@ - 1)]

\* Cpu::update_timers
update_timers(s) ==
  LET s1 == IF s.delay_timer > 0 THEN [s EXCEPT !.delay_timer = @ - 1] ELSE s
  IN IF s1.sound_timer > 0 THEN [s1 EXCEPT !.sound_timer = @ - 1] ELSE s1

(***************************************************************************)
(* Program files                                                           *)
(***************************************************************************)
\* the bytes of a program given as a sequence of opcodes, big-endian
Rom(ops) ==
  [b \in 1..(2 * Len(ops)) |->
     IF b % 2 = 1 THEN ops[(b + 1) \div 2] \div 256 ELSE ops[b \div 2] % 256]

\* 6002 V0 := 2; F015 DT := V0; F018 ST := V0; F30A V3 := key; 1208 JP 0x208
RomWait == Rom(<<24578, 61461, 61464, 62218, 4616>>)
\* 00EE: return with an empty call stack
RomRet == Rom(<<238>>)
\* AFFE I := 0xFFE; F033: the digits of V0 to memory[I .. I+2]
RomEdge == Rom(<<45054, 61491>>)
\* 1200 JP 0x200, then zeroes up to length len, the last byte 1
RomOfLen(len) ==
  [b \in 1..len |-> IF b = 1 THEN 18 ELSE IF b = len /\ b > 2 THEN 1 ELSE 0]

\* what fs::read(path) returns: Ok(bytes) or Err
Files ==
  { [ok |-> TRUE, bytes |-> RomWait],
    [ok |-> TRUE, bytes |-> RomRet],
    [ok |-> TRUE, bytes |-> RomEdge],
    [ok |-> TRUE, bytes |-> RomOfLen(MEMORY_SIZE - START_ADDR)],
    [ok |-> TRUE, bytes |-> RomOfLen(MEMORY_SIZE - START_ADDR + 1)],
    [ok |-> FALSE, bytes |-> <<>>] }

\* the keys event::read() delivers: a mapped character, the toggle, an
\* unmapped character, the quit key, a key that is neither
Keys == {"a", " ", "p", "Esc", "Enter"}
TickSteps == {KEY_PRESS_TTL}

(***************************************************************************)
(* Cpu::new, Display::new, Keyboard::new                                   *)
(***************************************************************************)
Init ==
  /\ memory = <<>>
  /\ v = [r \in Reg |-> 0]
  /\ i = 0
  /\ delay_timer = 0
  /\ sound_timer = 0
  /\ pc = START_ADDR
  /\ stack = <<>>
  /\ paused = FALSE
  /\ should_quit = FALSE
  /\ next_key_params = <<>>
  /\ block_arr = {}
  /\ raw_mode = FALSE
  /\ rendered = "none"
  /\ key_press_rx = <<>>
  /\ pressed_keys = <<>>
  /\ esc_pressed = FALSE
  /\ pause_toggle_on = FALSE
  /\ listening = FALSE
  /\ captured = 0
  /\ now = 0
  /\ ticks = 0
  /\ phase = "new"
  /\ step = 0
  /\ fatal = "none"
  /\ last = <<>>
  /\ last2 = <<>>
  /\ last_input = <<>>
  /\ last_frame = <<>>
  /\ last_load = <<>>
  /\ call_sites = <<>>
  /\ nexec = 0

\* memory[start..start + Len(bytes)].copy_from_slice(bytes)
copy_from_slice(mem, start, bytes) ==
  LET range == start..(start + Len(bytes) - 1)
      val(a) == IF a \in range THEN bytes[a - start + 1] ELSE MemRead(mem, a)
  IN [a \in {b \in DOMAIN mem \cup range : val(b) # 0} |-> val(a)]

\* Cpu::read_sprites_into_memory
read_sprites_into_memory(mem) == copy_from_slice(mem, 0, SPRITE_BYTES)

\* Cpu::load_rom: the memory after, and "Ok", "Err" or "panic"
load_rom(mem, file) ==
  IF ~file.ok THEN [memory |-> mem, result |-> "Err"]
  ELSE IF START_ADDR + Len(file.bytes) > MEMORY_SIZE
    THEN [memory |-> mem, result |-> "panic"]
  ELSE [memory |-> copy_from_slice(mem, START_ADDR, file.bytes), result |-> "Ok"]

\* the Cpu fields of s become the state
SetCpu(s) ==
  /\ memory' = s.memory
  /\ v' = s.v
  /\ i' = s.i
  /\ delay_timer' = s.delay_timer
  /\ sound_timer' = s.sound_timer
  /\ pc' = s.pc
  /\ stack' = s.stack
  /\ paused' = s.paused
  /\ next_key_params' = s.next_key_params
  /\ block_arr' = s.block_arr
  /\ fatal' = s.fatal

SetKeyboard(k) ==
  /\ key_press_rx' = k.key_press_rx
  /\ pressed_keys' = k.pressed_keys
  /\ esc_pressed' = k.esc_pressed
  /\ pause_toggle_on' = k.pause_toggle_on

\* Cpu::init up to its loop: sprites, load_rom, Display::init, Keyboard::init
CpuInit(file) ==
  /\ phase = "new"
  /\ LET sprites == read_sprites_into_memory(memory)
         loaded == load_rom(sprites, file)
     IN /\ memory' = loaded.memory
        /\ last_load' = Some([file |-> file, before |-> sprites,
                              memory |-> loaded.memory,
                              result |-> loaded.result])
        /\ phase' = CASE loaded.result = "Ok" -> "input"
                      [] loaded.result = "Err" -> "load_error"
                      [] OTHER -> "panicked"
        /\ fatal' = IF loaded.result = "panic"
                      THEN "range end index out of range" ELSE fatal
        /\ raw_mode' = (loaded.result = "Ok")
        /\ listening' = (loaded.result = "Ok")
  /\ UNCHANGED <<v, i, delay_timer, sound_timer, pc, stack, paused, should_quit,
                 next_key_params, block_arr, rendered, keyboardVars, captured,
                 clockVars, step, last, last2, last_input, last_frame,
                 call_sites, nexec>>

\* the for loop of Cpu::cycle goes to its next iteration, or ends
NextIteration ==
  IF step + 1 < speed THEN phase' = "input" /\ step' = step + 1
                      ELSE phase' = "frame_end" /\ step' = step

\* mutant: the quit key ends the iteration, not the frame
branch_quit_continue(esc, is_paused) ==
  IF esc \/ is_paused THEN "continue" ELSE "fetch"

\* where an iteration of the for loop goes after its input part: `return
\* Ok(())` on the quit key, `continue` when paused, the fetch otherwise
branch(esc, is_paused) ==
  IF esc THEN "return" ELSE IF is_paused THEN "continue" ELSE "fetch"

\* Cpu::cycle, one iteration of the for loop up to the fetch (lines 111-131)
StepInput ==
  /\ phase = "input"
  /\ LET waiting == next_key_params # <<>>
         r == IF waiting
                THEN process_next_key(CpuState, Keyboard)
                ELSE LET k == process_pressed_keys(Keyboard)
                     IN [s |-> IF paused /\ ~k.pause_toggle_on
                                 THEN [CpuState EXCEPT !.paused = FALSE]
                                 ELSE CpuState,
                         k |-> k, resolved |-> FALSE, val |-> <<>>]
         quit == r.k.esc_pressed
         s2 == IF ~quit /\ r.k.pause_toggle_on
                 THEN [r.s EXCEPT !.paused = TRUE] ELSE r.s
     IN /\ SetCpu(s2)
        /\ SetKeyboard(r.k)
        /\ should_quit' = quit
        /\ CASE branch(quit, s2.paused) = "return" ->
                    phase' = "quit" /\ step' = step
             [] branch(quit, s2.paused) = "continue" -> NextIteration
             [] OTHER -> phase' = "exec" /\ step' = step
        /\ last_input' = Some([waiting |-> waiting, params |-> next_key_params,
                               consumed |-> r.k.consumed, resolved |-> r.resolved,
                               val |-> r.val, v |-> v,
                               toggle |-> pause_toggle_on])
  /\ last_frame' = <<>>
  /\ UNCHANGED <<raw_mode, rendered, captureVars, clockVars, last, last2,
                 last_load, call_sites, nexec>>

\* the CALLs not yet returned from (the address of each and the depth of the
\* stack before it), after opcode at addr
Sites(sites, opcode, addr, depth) ==
  IF opcode \div 4096 = 2 THEN Append(sites, [addr |-> addr, depth |-> depth])
  ELSE IF opcode = 238 /\ sites # <<>> THEN SubSeq(sites, 1, Len(sites) - 1)
  ELSE sites

\* exec_instruction(opcode) is applied to the state
Execute(opcode) ==
  /\ \E s \in exec_instruction(CpuState, opcode) : SetCpu(s)
  /\ last' = Some([opcode |-> opcode, pre |-> CpuState, sites |-> call_sites])
  /\ last2' = last
  /\ call_sites' = Sites(call_sites, opcode, pc, Len(stack))

\* Cpu::cycle, the fetch and exec_instruction of one iteration (lines 133-135)
StepExec ==
  /\ phase = "exec"
  /\ IF pc + 1 >= MEMORY_SIZE
       THEN /\ fatal' = "index out of bounds"
            /\ phase' = "panicked"
            /\ step' = step
            /\ UNCHANGED <<memory, v, i, delay_timer, sound_timer, pc, stack,
                           paused, next_key_params, block_arr, last, last2,
                           call_sites>>
       ELSE /\ Execute((MemRead(memory, pc) * 256) + MemRead(memory, pc + 1))
            /\ IF fatal' # "none" THEN phase' = "panicked" /\ step' = step
                                  ELSE NextIteration
  /\ last_input' = <<>>
  /\ UNCHANGED <<should_quit, raw_mode, rendered, keyboardVars, captureVars,
                 clockVars, last_frame, last_load, nexec>>

\* Cpu::cycle after the for loop (lines 138-156): timers and render
EndFrame ==
  /\ phase = "frame_end"
  /\ \E ok \in BOOLEAN :
       LET s == IF ~paused THEN update_timers(CpuState) ELSE CpuState
       IN /\ last_frame' = Some([paused |-> paused,
                                 toggle |-> pause_toggle_on,
                                 waiting |-> next_key_params # <<>>,
                                 delay_before |-> delay_timer,
                                 sound_before |-> sound_timer,
                                 delay_after |-> s.delay_timer,
                                 sound_after |-> s.sound_timer])
          /\ IF ok
               THEN /\ SetCpu(s)
                    /\ rendered' = IF pause_toggle_on THEN "key_map"
                                                      ELSE "display"
                    /\ phase' = "input"
                    /\ UNCHANGED raw_mode
               \* render returned Err: cycle returns it, Cpu::init calls
               \* Display::exit and panics with it (lines 82-85)
               ELSE /\ SetCpu(Panic(s, "render error"))
                    /\ rendered' = "failed"
                    /\ phase' = "panicked"
                    /\ raw_mode' = FALSE
  /\ step' = 0
  /\ last_input' = <<>>
  /\ UNCHANGED <<should_quit, keyboardVars, captureVars, clockVars,
                 last, last2, last_load, call_sites, nexec>>

\* Cpu::init after its loop: Display::exit
Exit ==
  /\ phase = "quit"
  /\ raw_mode' = FALSE
  /\ phase' = "exited"
  /\ UNCHANGED <<cpuVars, block_arr, rendered, keyboardVars, captureVars,
                 clockVars, step, fatal, histVars>>

\* the thread of Keyboard::listen reads one key event
KeyEvent(key) ==
  /\ listening
  /\ phase \in {"input", "exec", "frame_end", "quit"}
  /\ captured < MaxEvents
  /\ IF key = "Esc" \/ key # "Enter"
       THEN /\ key_press_rx' =
                 Append(key_press_rx, [key |-> key, timestamp |-> now])
            /\ captured' = captured + 1
       ELSE UNCHANGED <<key_press_rx, captured>>
  /\ listening' = (key # "Esc")
  /\ UNCHANGED <<cpuVars, displayVars, pressed_keys, esc_pressed,
                 pause_toggle_on, clockVars, ctlVars, histVars>>

\* time passes
Tick(d) ==
  /\ ticks < MaxTicks
  /\ phase \in {"input", "exec", "frame_end"}
  /\ now' = now + d
  /\ ticks' = ticks + 1
  /\ UNCHANGED <<cpuVars, displayVars, keyboardVars, captureVars, ctlVars,
                 histVars>>

Next ==
  \/ \E file \in Files : CpuInit(file)
  \/ StepInput
  \/ StepExec
  \/ EndFrame
  \/ Exit
  \/ \E key \in Keys : KeyEvent(key)
  \/ \E d \in TickSteps : Tick(d)

Spec == Init /\ [][Next]_vars

\* the engine thread: the loop of Cpu::init runs until it quits or panics
Engine == StepInput \/ StepExec \/ EndFrame \/ Exit
SpecLive == Spec /\ WF_vars(Engine)

\* ---- claims about the engine, under Spec and SpecLive

\* the process has ended on a fatal condition met after Display::init
Terminated ==
  /\ phase = "panicked"
  /\ last_load # <<>> /\ last_load[1].result = "Ok"

\* C11: when the process has ended on a fatal condition met after the
\* display was initialised, the terminal is back in its prior mode
\* (Display::exit has run: raw mode is off).
C11_FatalRestores == Terminated => ~raw_mode

\* C6: at the end of a frame each timer goes down by exactly 1 if it is above
\* 0 and stays 0 otherwise; in a frame that ends with the pause toggle on or
\* a wait for a key pending, neither timer changes.
C6_Timers ==
  /\ delay_timer \in Byte /\ sound_timer \in Byte
  /\ last_frame # <<>> =>
       LET f == last_frame[1]
           dec(t) == IF t > 0 THEN t - 1 ELSE 0
       IN IF f.toggle \/ f.waiting \/ f.paused
            THEN /\ f.delay_after = f.delay_before
                 /\ f.sound_after = f.sound_before
            ELSE /\ f.delay_after = dec(f.delay_before)
                 /\ f.sound_after = dec(f.sound_before)

\* a running frame has ended with the delay timer going from 1 to 0
C6_Witness ==
  /\ last_frame # <<>>
  /\ ~last_frame[1].paused
  /\ last_frame[1].delay_before = 1
  /\ delay_timer = 0

\* the mapped character events among evs timestamped at or after t
Qualifying(evs, t) ==
  { n \in 1..Len(evs) :
      evs[n].key \in DOMAIN key_map /\ evs[n].timestamp >= t }

\* C7: when a step with a wait pending and the pause toggle off consumes a
\* mapped character event timestamped at or after the request, that event
\* is the last one the step consumes, Vx holds its logical value, the
\* request is cleared, the machine is not paused and no other register has
\* changed.
C7_WaitResolves ==
  last_input # <<>> /\ last_input[1].waiting /\ ~last_input[1].toggle =>
    LET li == last_input[1]
        params == li.params[1]
        q == Qualifying(li.consumed, params.valid_after)
    IN q # {} =>
         /\ q = {Len(li.consumed)}
         /\ li.resolved
         /\ v[params.destination_idx] = key_map[li.consumed[Len(li.consumed)].key]
         /\ v[params.destination_idx] \in 0..15
         /\ next_key_params = <<>>
         /\ ~paused
         /\ phase = "exec"
         /\ \A r \in Reg \ {params.destination_idx} : v[r] = li.v[r]

\* Fx0A to V3 was resolved by "a", pressed after the request and queued
\* behind an older event: V3 = 7
C7_Witness ==
  /\ last_input # <<>> /\ last_input[1].waiting /\ last_input[1].resolved
  /\ Len(last_input[1].consumed) = 2
  /\ last_input[1].consumed[2].timestamp > last_input[1].params[1].valid_after
  /\ v[3] = 7
  /\ ~paused

\* a step of the engine from the top of an iteration of the for loop
InputStep == phase = "input" /\ <<phase, step>>' # <<phase, step>>

\* C13: a step with a wait pending takes events from the head of the queue,
\* in order, and leaves the rest; when the resolver returns a value, the last
\* event taken is a mapped character event timestamped at or after
\* valid_after, the value is its logical value, and no event taken before it
\* is one; every character event it took that is timestamped before
\* valid_after was passed over.
C13_ResolverOrder ==
  /\ [](last_input # <<>> /\ last_input[1].waiting =>
         LET li == last_input[1]
             n == Len(li.consumed)
             q == Qualifying(li.consumed, li.params[1].valid_after)
         IN IF li.val # <<>>
              THEN /\ q = {n}
                   /\ li.val = Some(key_map[li.consumed[n].key])
              ELSE q = {})
  /\ [][InputStep /\ next_key_params # <<>> =>
          last_input'[1].consumed \o key_press_rx' = key_press_rx]_vars

\* the resolver passed over an "a" pressed before the request and returned
\* the value of the "a" pressed after it
C13_Witness ==
  /\ last_input # <<>> /\ last_input[1].waiting
  /\ last_input[1].val = Some(7)
  /\ Len(last_input[1].consumed) = 2
  /\ last_input[1].consumed[1].key = "a"
  /\ last_input[1].consumed[1].timestamp < last_input[1].params[1].valid_after
  /\ last_input[1].consumed[2].timestamp >= last_input[1].params[1].valid_after

\* C14: after the engine has taken a mapped character event timestamped t
\* from the queue (by the drain or by the resolver) and no later event of
\* that key in the same step, the held-key query for its logical key is
\* true exactly while now - t < 100 ms.
C14_HeldKey ==
  last_input # <<>> =>
    LET li == last_input[1]
    IN \A n \in 1..Len(li.consumed) :
         LET ev == li.consumed[n]
         IN /\ ev.key \in DOMAIN key_map
            /\ \A m \in (n + 1)..Len(li.consumed) : li.consumed[m].key # ev.key
            => (is_key_pressed(pressed_keys, now, key_map[ev.key])
                  <=> now - ev.timestamp < KEY_PRESS_TTL)

\* the fetch and exec_instruction of an iteration
ExecStep == phase = "exec" /\ phase' # "exec"

\* C15: while the pause toggle is on or a wait for a key is pending, paused
\* is true and no instruction is fetched or executed; paused goes from true
\* to false only in a step that leaves the toggle off and no wait pending.
C15_PausedNoExec ==
  /\ [](pause_toggle_on \/ next_key_params # <<>> => paused)
  /\ [](phase = "exec" => ~paused)
  /\ [][ExecStep => ~pause_toggle_on /\ next_key_params = <<>> /\ ~paused]_vars
  /\ [][paused /\ ~paused' =>
          /\ InputStep
          /\ ~pause_toggle_on' /\ next_key_params' = <<>>]_vars
  /\ [][(pause_toggle_on \/ next_key_params # <<>>) /\ ~ExecStep =>
          UNCHANGED <<pc, last, memory, v, i, stack, block_arr>>
          \/ (InputStep /\ last_input'[1].resolved)]_vars

\* a step that began paused by the toggle took a second toggle event and
\* went on to fetch an instruction
C15_Witness ==
  /\ last_input # <<>> /\ last_input[1].toggle /\ ~last_input[1].waiting
  /\ ~pause_toggle_on
  /\ ~paused
  /\ phase = "exec"
  /\ last # <<>>

\* C16: in an iteration that began with a wait for a key pending, resolved
\* or not, nothing follows the attempt to resolve it: no instruction is
\* fetched or executed and pc stays as it was.
C16_WaitStepOnly ==
  [][last_input # <<>> /\ last_input[1].waiting /\ phase = "exec" =>
       pc' = pc /\ last' = last]_vars

\* C17: the step that observes the quit key sets the quit flag and leaves
\* the frame: memory, registers, I, pc, stack, display and timers are as
\* before the step, the loop is left at once, and from then on no
\* instruction is executed, no timer is updated and nothing is rendered.
C17_QuitEndsFrame ==
  /\ [][InputStep /\ esc_pressed' =>
          /\ should_quit'
          /\ phase' = "quit"
          /\ UNCHANGED <<memory, v, i, pc, stack, block_arr, delay_timer,
                         sound_timer, rendered, last>>]_vars
  /\ [](should_quit => phase \in {"quit", "exited"} /\ last_frame = <<>>)
  /\ [][should_quit =>
          UNCHANGED <<memory, v, i, pc, stack, block_arr, delay_timer,
                      sound_timer, rendered, last, step>>]_vars

\* the quit key was observed in the third iteration of the first frame, with
\* the delay timer set by the program and nothing rendered yet
C17_Witness ==
  /\ should_quit
  /\ phase = "quit"
  /\ step = 2
  /\ delay_timer = 2
  /\ rendered = "none"
  /\ last # <<>>

\* C18: a request to wait for a key appears only when Fx0A is executed, and
\* whenever the quit flag is set no request is pending.
C18_RequestCleared ==
  /\ [][next_key_params = <<>> /\ next_key_params' # <<>> =>
          /\ ExecStep
          /\ last'[1].opcode \div 4096 = 15 /\ last'[1].opcode % 256 = 10]_vars
  /\ [](should_quit => next_key_params = <<>>)

\* the toggle events among evs
Toggles(evs) == { n \in 1..Len(evs) : evs[n].key = " " }

\* C19: every toggle event the engine takes from the queue flips the pause
\* toggle once, in the drain and in the resolver alike and whatever its
\* timestamp: after a step the toggle differs from its value before the step
\* exactly when the step took an odd number of toggle events.
C19_ToggleEffect ==
  last_input # <<>> =>
    LET li == last_input[1]
    IN (pause_toggle_on # li.toggle) <=>
         (Cardinality(Toggles(li.consumed)) % 2 = 1)

\* the quit and toggle events among evs
Stops(evs) == { n \in 1..Len(evs) : evs[n].key \in {"Esc", " "} }

\* C20: in a step with a wait pending, when the first quit or toggle event
\* of the queue comes before every qualifying character event, the request
\* stays pending, the destination register keeps its value, the quit flag
\* is set or the toggle flipped, and the events behind that event stay in
\* the queue.
C20_ShortCircuit ==
  [][InputStep /\ next_key_params # <<>> /\ Stops(key_press_rx) # {} =>
       LET q == key_press_rx
           params == next_key_params[1]
           f == CHOOSE n \in Stops(q) : \A m \in Stops(q) : n <= m
       IN (\A n \in Qualifying(q, params.valid_after) : n > f) =>
            /\ next_key_params' = next_key_params
            /\ v'[params.destination_idx] = v[params.destination_idx]
            /\ IF q[f].key = "Esc" THEN esc_pressed'
                                   ELSE pause_toggle_on' # pause_toggle_on
            /\ key_press_rx' = SubSeq(q, f + 1, Len(q))]_vars

\* C21: in a step with a wait pending and the pause toggle on, a mapped
\* character event timestamped at or after valid_after is taken from the
\* queue only by a step that resolves the wait with it.
C21_KeyNotLost ==
  last_input # <<>> /\ last_input[1].waiting /\ last_input[1].toggle =>
    LET li == last_input[1]
    IN Qualifying(li.consumed, li.params[1].valid_after) # {} =>
         /\ li.resolved
         /\ v[li.params[1].destination_idx] =
              key_map[li.consumed[Len(li.consumed)].key]

\* C22: the capture thread only appends events to the queue, stamped with
\* the time of capture, and appends nothing after a quit event; the engine
\* only takes events from the head of the queue, so it sees every event at
\* most once and in the order of capture.
C22_QueueOrder ==
  /\ [](\A n \in 1..Len(key_press_rx) :
          /\ key_press_rx[n].key = "Esc" => n = Len(key_press_rx) /\ ~listening
          /\ \A m \in 1..n : key_press_rx[m].timestamp <= key_press_rx[n].timestamp)
  /\ [](esc_pressed => key_press_rx = <<>> /\ ~listening)
  /\ [][InputStep => last_input'[1].consumed \o key_press_rx' = key_press_rx]_vars
  /\ [][~InputStep /\ key_press_rx' # key_press_rx =>
          /\ listening
          /\ \E key \in Keys :
               key_press_rx' =
                 Append(key_press_rx, [key |-> key, timestamp |-> now])]_vars

\* one drain took "a" and then the quit key, in the order of capture, and
\* the capture thread has stopped
C22_Witness ==
  /\ last_input # <<>>
  /\ Len(last_input[1].consumed) = 2
  /\ last_input[1].consumed[1].key = "a"
  /\ last_input[1].consumed[2].key = "Esc"
  /\ key_press_rx = <<>>
  /\ ~listening
  /\ should_quit

\* C27: every memory access of the engine is inside memory: the two bytes
\* fetched at pc, the sprite rows Dxyn reads from I, the three bytes Fx33
\* writes at I, and the x + 1 bytes Fx55 and Fx65 transfer at I.
C27_AccessInBounds ==
  /\ phase = "exec" => pc + 1 < MEMORY_SIZE
  /\ last # <<>> =>
       LET op == last[1].opcode
           pre == last[1].pre
           x == (op \div 256) % 16
           y == (op \div 16) % 16
           rows == Min(op % 16, ROWS - (pre.v[y] % ROWS))
       IN CASE op \div 4096 = 13 -> rows > 0 => pre.i + rows - 1 < MEMORY_SIZE
            [] op \div 4096 = 15 /\ op % 256 = 51 -> pre.i + 2 < MEMORY_SIZE
            [] op \div 4096 = 15 /\ op % 256 \in {85, 101} ->
                 pre.i + x < MEMORY_SIZE
            [] OTHER -> TRUE

EscQueued == \E n \in 1..Len(key_press_rx) : key_press_rx[n].key = "Esc"

\* C8: once a quit event is on the queue the engine sets its quit flag
\* (unless it panics first); once the flag is set no instruction is
\* executed any more, and the loop is left: Cpu::init returns.
C8_Quit ==
  /\ (EscQueued ~> (should_quit \/ phase = "panicked"))
  /\ [][should_quit => /\ should_quit'
                        /\ UNCHANGED <<memory, v, i, pc, stack, delay_timer,
                                       sound_timer, block_arr, last>>]_vars
  /\ (should_quit ~> phase = "exited")

\* the quit key was observed by a step that began with a wait pending, and
\* Cpu::init has returned
C8_Witness ==
  /\ phase = "exited"
  /\ should_quit
  /\ last_input # <<>> /\ last_input[1].waiting
  /\ next_key_params # <<>>

\* C10: a program with 0x200 + len > 4096 makes load_rom return an error
\* and leaves memory as it was; a program that fits is copied to
\* memory[0x200 .. 0x200 + len) and no other cell changes.
C10_LoadBounds ==
  last_load # <<>> /\ last_load[1].file.ok =>
    LET l == last_load[1]
        len == Len(l.file.bytes)
    IN IF START_ADDR + len > MEMORY_SIZE
         THEN l.result = "Err" /\ l.memory = l.before
         ELSE /\ l.result = "Ok"
              /\ \A a \in 0..(MEMORY_SIZE - 1) :
                   MemRead(l.memory, a) =
                     IF a \in START_ADDR..(START_ADDR + len - 1)
                       THEN l.file.bytes[a - START_ADDR + 1]
                       ELSE MemRead(l.before, a)

(***************************************************************************)
(* Instruction-level specifications: exec_instruction applied to inputs    *)
(* drawn from bounded sets.  The engine is past Cpu::init (sprites in      *)
(* memory, display initialised); the registers, I, the memory above the    *)
(* sprites and the display hold values a program can put there.            *)
(***************************************************************************)
InitApply(vv, ii, mem, blocks) ==
  /\ memory = mem
  /\ v = vv
  /\ i = ii
  /\ delay_timer = 0
  /\ sound_timer = 0
  /\ pc = START_ADDR
  /\ stack = <<>>
  /\ paused = FALSE
  /\ should_quit = FALSE
  /\ next_key_params = <<>>
  /\ block_arr = blocks
  /\ raw_mode = TRUE
  /\ rendered = "none"
  /\ key_press_rx = <<>>
  /\ pressed_keys = <<>>
  /\ esc_pressed = FALSE
  /\ pause_toggle_on = FALSE
  /\ listening = TRUE
  /\ captured = 0
  /\ now = 0
  /\ ticks = 0
  /\ phase = "apply"
  /\ step = 0
  /\ fatal = "none"
  /\ last = <<>>
  /\ last2 = <<>>
  /\ last_input = <<>>
  /\ last_frame = <<>>
  /\ last_load = <<>>
  /\ call_sites = <<>>
  /\ nexec = 0

\* one call of exec_instruction(opcode)
Apply(opcode) ==
  /\ phase = "apply"
  /\ Execute(opcode)
  /\ nexec' = nexec + 1
  /\ phase' = IF fatal' # "none" THEN "panicked" ELSE "apply"
  /\ UNCHANGED <<should_quit, raw_mode, rendered, keyboardVars, captureVars,
                 clockVars, step, last_input, last_frame, last_load>>

Sprites == read_sprites_into_memory(<<>>)

\* decoded fields of an opcode
OpX(opcode) == (opcode \div 256) % 16
OpY(opcode) == (opcode \div 16) % 16
OpN(opcode) == opcode % 16
OpKK(opcode) == opcode % 256
OpNNN(opcode) == opcode % 4096
OpFamily(opcode) == opcode \div 4096
Opcode(family, x, y, n) == (family * 4096) + (x * 256) + (y * 16) + n

\* ---- SpecAlu: one 8xyN instruction on sampled register values
ByteSamples == {0, 1, 2, 127, 128, 129, 254, 255}
FlagSamples == {0, 1, 200}
AluRegs ==
  { [r \in Reg |-> CASE r = 0 -> a [] r = 1 -> b [] r = 14 -> 77 [] r = VF -> c
                     [] OTHER -> 0] :
      a \in ByteSamples, b \in ByteSamples, c \in FlagSamples }
AluOpcodes ==
  { Opcode(8, x, y, n) : x \in {0, 1, 14, VF}, y \in {0, 1, VF},
                         n \in {0, 1, 2, 3, 4, 5, 6, 7, 8, 14} }

InitAlu == \E vv \in AluRegs : InitApply(vv, 0, Sprites, {})
ApplyAlu == \E opcode \in AluOpcodes : nexec = 0 /\ Apply(opcode)
SpecAlu == InitAlu /\ [][ApplyAlu]_vars

\* the last instruction was 8xyN with this N, and returned
Did8(n) ==
  /\ last # <<>>
  /\ OpFamily(last[1].opcode) = 8
  /\ OpN(last[1].opcode) = n
  /\ fatal = "none"

\* C1: after 8xy4 with x in V0..VE, y in V0..VF and Vx = a, Vy = b before,
\* Vx = (a + b) mod 256 and VF = 1 if a + b > 255, otherwise VF = 0.
C1_AddCarry ==
  Did8(4) /\ OpX(last[1].opcode) # VF =>
    LET x == OpX(last[1].opcode)
        a == last[1].pre.v[x]
        b == last[1].pre.v[OpY(last[1].opcode)]
    IN /\ v[x] = (a + b) % 256
       /\ v[VF] = IF a + b > 255 THEN 1 ELSE 0

\* an ADD Vx, VF whose sum is exactly 256 has been executed
C1_Witness ==
  /\ Did8(4)
  /\ OpX(last[1].opcode) = 0
  /\ OpY(last[1].opcode) = VF
  /\ last[1].pre.v[0] + last[1].pre.v[VF] = 256
  /\ v[VF] = 1

\* C2: after 8xy5 with x in V0..VE, y in V0..VF and Vx = a, Vy = b before,
\* VF = 1 iff a > b and Vx = (a - b) mod 256.
C2_SubBorrow ==
  Did8(5) /\ OpX(last[1].opcode) # VF =>
    LET x == OpX(last[1].opcode)
        a == last[1].pre.v[x]
        b == last[1].pre.v[OpY(last[1].opcode)]
    IN /\ v[VF] = (IF a > b THEN 1 ELSE 0)
       /\ v[x] = (a - b) % 256

FlagOutput(n, a, b) ==
  CASE n = 4  -> IF a + b > 255 THEN 1 ELSE 0
    [] n = 5  -> IF a > b THEN 1 ELSE 0
    [] n = 6  -> a % 2
    [] n = 7  -> IF b > a THEN 1 ELSE 0
    [] n = 14 -> BitAnd(a, 128, 8)

\* C25: after 8Fy4, 8Fy5, 8Fy6, 8Fy7 or 8FyE (the destination is VF), VF
\* holds the flag computed from the values VF and Vy had before the
\* instruction, not the sum, difference or shifted value.
C25_FlagWins ==
  /\ last # <<>>
  /\ OpFamily(last[1].opcode) = 8
  /\ OpN(last[1].opcode) \in {4, 5, 6, 7, 14}
  /\ OpX(last[1].opcode) = VF
  => v[VF] = FlagOutput(OpN(last[1].opcode), last[1].pre.v[VF],
                        last[1].pre.v[OpY(last[1].opcode)])

\* ---- SpecFlow: sequences of CALL, RET and a plain instruction
\* 2300 CALL 0x300; 220A CALL 0x20A; 00EE RET; 6000 V0 := 0
FlowOpcodes == {8960, 8714, 238, 24576}

InitFlow == InitApply([r \in Reg |-> 0], 0, Sprites, {})
ApplyFlow == \E opcode \in FlowOpcodes : nexec < MaxFlow /\ Apply(opcode)
SpecFlow == InitFlow /\ [][ApplyFlow]_vars

\* C4: the stack holds, in order, the address after each CALL not yet
\* returned from; a RET sets pc to the address after the most recent of them
\* and leaves the stack at the depth it had before that CALL.
C4_CallRetLifo ==
  /\ Len(stack) = Len(call_sites)
  /\ \A k \in 1..Len(call_sites) : stack[k] = call_sites[k].addr + 2
  /\ last # <<>> /\ last[1].opcode = 238 /\ fatal = "none" =>
       LET sites == last[1].sites
       IN /\ sites # <<>>
          /\ pc = sites[Len(sites)].addr + 2
          /\ Len(stack) = sites[Len(sites)].depth

\* CALL, CALL, RET, RET: the second RET returns to the first CALL
C4_Witness ==
  /\ last # <<>> /\ last[1].opcode = 238
  /\ last2 # <<>> /\ last2[1].opcode = 238
  /\ fatal = "none"
  /\ pc = START_ADDR + 2
  /\ stack = <<>>

\* ---- SpecDraw: Dxyn instructions on sampled positions, sprites and displays
DrawMemory == copy_from_slice(Sprites, MEMORY_SIZE - 6, <<255, 129, 255, 129, 255, 255>>)
DrawRegs ==
  { [r \in Reg |-> CASE r = 0 -> px [] r = 1 -> py [] OTHER -> 0] :
      px \in {0, 60, 63, 70}, py \in {0, 29, 31, 40} }
DrawIndex == {0, 75, MEMORY_SIZE - 6}
DrawDisplays ==
  { {}, {0, 3, 63, 64, 1916, 2047}, 0..(NUM_OF_BLOCKS - 1) }
\* D011, D015, D01F, D010, DF15, D0F5
DrawOpcodes == {53265, 53269, 53279, 53264, 57109, 53493}

InitDraw ==
  \E vv \in DrawRegs, ii \in DrawIndex, blocks \in DrawDisplays :
    InitApply(vv, ii, DrawMemory, blocks)
ApplyDraw == \E opcode \in DrawOpcodes : nexec < MaxDraws /\ Apply(opcode)
SpecDraw == InitDraw /\ [][ApplyDraw]_vars

\* the blocks under the set bits of the n-byte sprite at mem[ii..] drawn at
\* (vx mod 64, vy mod 32), those past the right or bottom edge left out
SpriteBlocks(mem, ii, vx, vy, n) ==
  { ((vx % COLS) + c) + (((vy % ROWS) + r) * COLS) :
      <<r, c>> \in { rc \in (0..(n - 1)) \X (0..7) :
                       /\ (vx % COLS) + rc[2] < COLS
                       /\ (vy % ROWS) + rc[1] < ROWS
                       /\ BitAt(MemRead(mem, ii + rc[1]), 7 - rc[2]) = 1 } }

\* the last two instructions were the same Dxyn, x and y other than F, with
\* the same I, memory, Vx and Vy, and both returned
DrewTwice ==
  /\ last # <<>> /\ last2 # <<>>
  /\ fatal = "none"
  /\ OpFamily(last[1].opcode) = 13
  /\ last2[1].opcode = last[1].opcode
  /\ OpX(last[1].opcode) # VF /\ OpY(last[1].opcode) # VF
  /\ last2[1].pre.i = last[1].pre.i
  /\ last2[1].pre.memory = last[1].pre.memory
  /\ last2[1].pre.v[OpX(last[1].opcode)] = last[1].pre.v[OpX(last[1].opcode)]
  /\ last2[1].pre.v[OpY(last[1].opcode)] = last[1].pre.v[OpY(last[1].opcode)]

\* C5: after the same Dxyn twice in a row the display is as before the first
\* draw, and VF = 1 if a block under a set sprite bit was on after the first.
C5_DoubleDraw ==
  DrewTwice =>
    LET op == last[1].opcode
        mid == last[1].pre
        covered == SpriteBlocks(mid.memory, mid.i, mid.v[OpX(op)], mid.v[OpY(op)],
                                OpN(op))
    IN /\ block_arr = last2[1].pre.block_arr
       /\ (covered \cap mid.block_arr # {} => v[VF] = 1)

\* a sprite cut off at the right edge was drawn twice over lit blocks
C5_Witness ==
  /\ DrewTwice
  /\ last[1].pre.v[0] = 60
  /\ v[VF] = 1
  /\ block_arr # {}
  /\ last[1].pre.block_arr # block_arr

\* the last instruction was a Dxyn and it returned
Drew == last # <<>> /\ OpFamily(last[1].opcode) = 13 /\ fatal = "none"

C24_CollisionFlag ==
  /\ Drew =>
       LET op == last[1].opcode
           pre == last[1].pre
           sprite == SpriteBlocks(pre.memory, pre.i, pre.v[OpX(op)],
                                  pre.v[OpY(op)], OpN(op))
       IN v[VF] = IF sprite \cap pre.block_arr # {} THEN 1 ELSE 0
  /\ \A x \in {0, 3, COLS - 1}, y \in {0, 1, ROWS - 1} :
       LET b == set_block(block_arr, x, y)
           idx == x + (y * COLS)
       IN /\ b.erased <=> idx \in block_arr
          /\ idx \in b.block_arr <=> idx \notin block_arr
          /\ b.block_arr \ {idx} = block_arr \ {idx}

\* a draw that erased nothing was made with VF = 1 left by the draw before
C24_Witness ==
  /\ Drew
  /\ last[1].pre.v[VF] = 1
  /\ v[VF] = 0
  /\ last2 # <<>>
  /\ block_arr # last[1].pre.block_arr

\* ---- SpecDecode: one instruction, any opcode with x = 0 or x = F
DecodeOpcodes == { op \in 0..65535 : OpX(op) \in {0, VF} }

InitDecode == InitApply([r \in Reg |-> 0], 0, Sprites, {})
ApplyDecode == \E opcode \in DecodeOpcodes : nexec = 0 /\ Apply(opcode)
SpecDecode == InitDecode /\ [][ApplyDecode]_vars

\* the rows of the instruction table
InTable(opcode) ==
  CASE OpFamily(opcode) \in {5, 9} -> OpN(opcode) = 0
    [] OpFamily(opcode) = 8 -> OpN(opcode) \in {0, 1, 2, 3, 4, 5, 6, 7, 14}
    [] OpFamily(opcode) = 14 -> OpKK(opcode) \in {158, 161}
    [] OpFamily(opcode) = 15 ->
         OpKK(opcode) \in {7, 10, 21, 24, 30, 41, 51, 85, 101}
    [] OTHER -> TRUE

\* C9: an opcode that matches no row of the instruction table takes the fatal
\* unknown-opcode path.
C9_UnknownOpcodeFatal ==
  last # <<>> /\ ~InTable(last[1].opcode) => fatal = "Unknown opcode"

\* ---- SpecFont: one instruction that writes memory, with I in and around
\* the glyph area
FontRegs ==
  { [r \in Reg |-> IF r = 0 THEN a ELSE IF r = 1 THEN b ELSE 0] :
      a \in ByteSamples, b \in {0, 255} }
FontIndex == {0, 2, 75, 78, 79, 80, START_ADDR}
\* F033, F133, F055, F155, F065, FF55, A000, 00E0
FontOpcodes == {61491, 61747, 61525, 61781, 61541, 65365, 40960, 224}

InitFont ==
  \E vv \in FontRegs, ii \in FontIndex : InitApply(vv, ii, Sprites, {})
ApplyFont == \E opcode \in FontOpcodes : nexec = 0 /\ Apply(opcode)
SpecFont == InitFont /\ [][ApplyFont]_vars

\* C12: the 80 bytes of the font glyphs at memory[0x000..0x04F] keep the
\* values written at start-up in every reachable state, whatever instruction
\* is executed (Fx33 and Fx55 included).
C12_FontPreserved ==
  \A a \in 0..(Len(SPRITE_BYTES) - 1) : MemRead(memory, a) = SPRITE_BYTES[a + 1]

\* ---- SpecCopy: up to MaxCopies register transfers Fx55 / Fx65, with I
\* inside memory and at its end
MaxCopies == 2

CopyRegs ==
  { [r \in Reg |-> CASE r = 0 -> a [] r = 1 -> b [] r = VF -> c
                     [] OTHER -> r] :
      a \in {0, 7, 255}, b \in {0, 9}, c \in {0, 200} }
CopyIndex == {78, 768, MEMORY_SIZE - 16, MEMORY_SIZE - 2, MEMORY_SIZE - 1}
CopyMemory ==
  copy_from_slice(copy_from_slice(Sprites, 768, <<17, 34, 51>>),
                  MEMORY_SIZE - 3, <<68, 85, 102>>)
\* F055, F155, FF55, F065, F165, FF65
CopyOpcodes == {61525, 61781, 65365, 61541, 61797, 65381}

InitCopy ==
  \E vv \in CopyRegs, ii \in CopyIndex : InitApply(vv, ii, CopyMemory, {})
ApplyCopy == \E opcode \in CopyOpcodes : nexec < MaxCopies /\ Apply(opcode)
SpecCopy == InitCopy /\ [][ApplyCopy]_vars

\* the last instruction was Fx55 (kk = 85) or Fx65 (kk = 101) and returned
DidF(kk) ==
  /\ last # <<>>
  /\ OpFamily(last[1].opcode) = 15
  /\ OpKK(last[1].opcode) = kk
  /\ fatal = "none"

\* C26: Fx55 writes V0..Vx to memory[I .. I+x] and changes no other cell, no
\* register and not I; Fx65 reads memory[I .. I+x] into V0..Vx and changes no
\* memory, no register above Vx and not I; Fx55 followed by Fx65 with the
\* same x leaves V0..Vx as they were.
C26_RegisterTransfer ==
  /\ DidF(85) =>
       LET pre == last[1].pre
           x == OpX(last[1].opcode)
       IN /\ \A a \in DOMAIN memory \cup DOMAIN pre.memory \cup (pre.i..(pre.i + x)) :
               MemRead(memory, a) = IF a \in pre.i..(pre.i + x)
                                      THEN pre.v[a - pre.i]
                                      ELSE MemRead(pre.memory, a)
          /\ v = pre.v
          /\ i = pre.i
  /\ DidF(101) =>
       LET pre == last[1].pre
           x == OpX(last[1].opcode)
       IN /\ \A r \in Reg :
               v[r] = IF r <= x THEN MemRead(pre.memory, pre.i + r) ELSE pre.v[r]
          /\ memory = pre.memory
          /\ i = pre.i
  /\ ( /\ DidF(101)
       /\ last2 # <<>>
       /\ OpKK(last2[1].opcode) = 85
       /\ OpX(last2[1].opcode) = OpX(last[1].opcode)
       => \A r \in 0..OpX(last[1].opcode) : v[r] = last2[1].pre.v[r] )

\* F155 at I = 0x300 and then F165: memory[0x300..0x301] hold V0 and V1,
\* the byte behind them is untouched and the registers are as before
C26_Witness ==
  /\ DidF(101)
  /\ last[1].opcode = 61797
  /\ last2 # <<>> /\ last2[1].opcode = 61781
  /\ i = 768
  /\ v[0] = 255 /\ v[1] = 9
  /\ MemRead(memory, 768) = 255 /\ MemRead(memory, 769) = 9
  /\ MemRead(memory, 770) = 51
=============================================================================
